---- MODULE Spec2Model ----
(***************************************************************************)
(* Dinic maximum flow (src/src/dinic.rs) and iterative Tarjan SCC          *)
(* (src/src/tarjan.rs) over the static graph of toolbox-rs.                *)
(*                                                                         *)
(* Node ids are naturals.  An edge is a record                             *)
(*   [source |-> u, target |-> v, capacity |-> c].                         *)
(* A static graph is a record [n |-> number of nodes, edges |-> sequence   *)
(* of edges sorted by (source, target)]; an edge handle is an index into   *)
(* that sequence.                                                          *)
(***************************************************************************)
EXTENDS Integers, Sequences, FiniteSets, TLC

\* ------------------------------------------------------------------ bounds
\* node ids of the enumerated edge lists are 0 .. MaxNode
MaxNode == 1
\* the enumerated edge lists have at most MaxEdges edges
MaxEdges == 2
\* the enumerated capacities are 0 .. MaxCap
MaxCap == 1
\* run() is called at most MaxRuns times on one solver instance
MaxRuns == 2
\* node ids of the enumerated graphs given to Tarjan are 0 .. SccMaxNode
SccMaxNode == 3
\* the enumerated graphs given to Tarjan have at most SccMaxEdges edges
SccMaxEdges == 3
\* Tarjan::run is called at most SccMaxRuns times on one instance
SccMaxRuns == 2

\* ------------------------------------------------------- program constants
\* usize::MAX / NodeID::MAX, the "unreached" / "no parent" sentinel.  It is
\* only compared and decremented by one, never reached by arithmetic, so the
\* largest value the checker's integers hold stands in for 2^64 - 1.
USIZE_MAX == 2147483647
\* i32::MAX, the flow a source is seeded with in dfs()
I32_MAX == 2147483647

\* --------------------------------------------------------- generic helpers
Min2(a, b) == IF a <= b THEN a ELSE b

Max2(a, b) == IF a >= b THEN a ELSE b

Range(s) == {s[i] : i \in 1 .. Len(s)}

\* the elements of a set of naturals as an ascending sequence
RECURSIVE Ascending(_)
Ascending(S) ==
    IF S = {} THEN <<>>
    ELSE LET m == CHOOSE x \in S : \A y \in S : x <= y
         IN  <<m>> \o Ascending(S \ {m})

\* ------------------------------------------------------------- edge model
InputEdge(u, v, c) == [source |-> u, target |-> v, capacity |-> c]

\* InputEdge::reverse followed by capacity = 0 (dinic.rs:66-67)
ReverseZero(e) == [source |-> e.target, target |-> e.source, capacity |-> 0]

\* derived Ord of InputEdge: lexicographic on (source, target, data)
EdgeLess(a, b) ==
    \/ a.source < b.source
    \/ a.source = b.source /\ a.target < b.target
    \/ a.source = b.source /\ a.target = b.target /\ a.capacity < b.capacity

\* insert e into the sorted sequence s, after the elements not greater
RECURSIVE Insert(_, _)
Insert(e, s) ==
    IF s = <<>> THEN <<e>>
    ELSE IF EdgeLess(e, Head(s)) THEN <<e>> \o s
    ELSE <<Head(s)>> \o Insert(e, Tail(s))

\* edge_list.sort_unstable(): the order is total on all three fields, so the
\* sorted list is unique
RECURSIVE SortEdges(_)
SortEdges(s) == IF s = <<>> THEN <<>> ELSE Insert(Head(s), SortEdges(Tail(s)))

\* a merge that keeps the retained edge and loses the capacity of the other
MergeIntoDropping(b, a) == b

\* one call of the dedup_by closure: a is the later element, b the retained
\* earlier one; equal (source, target) accumulates a onto b and drops a
MergeInto(b, a) == [b EXCEPT !.capacity = b.capacity + a.capacity]

SameBucket(a, b) == a.source = b.source /\ a.target = b.target

\* edge_list.dedup_by(..) over the sorted list: acc is the retained prefix
RECURSIVE DedupBy(_, _)
DedupBy(acc, rest) ==
    IF rest = <<>> THEN acc
    ELSE LET a == Head(rest)
         IN  IF acc # <<>> /\ SameBucket(a, acc[Len(acc)])
             THEN DedupBy([acc EXCEPT ![Len(acc)] = MergeInto(acc[Len(acc)], a)],
                          Tail(rest))
             ELSE DedupBy(Append(acc, a), Tail(rest))

\* ----------------------------------------------------------- static graph
\* one past the maximum node id referenced by the edge list
RECURSIVE NumberOfNodes(_)
NumberOfNodes(s) ==
    IF s = <<>> THEN 0
    ELSE Max2(Max2(Head(s).source, Head(s).target) + 1, NumberOfNodes(Tail(s)))

\* StaticGraph::new: sort by (source, target, ..), merge adjacent equal
\* (source, target) entries, group by source
StaticGraphNew(edge_list) ==
    [n |-> NumberOfNodes(edge_list),
     edges |-> DedupBy(<<>>, SortEdges(edge_list))]

number_of_nodes(g) == g.n

NodesOf(g) == 0 .. (g.n - 1)

\* the handles of u's outgoing edges, ascending
edge_range(g, u) ==
    Ascending({i \in 1 .. Len(g.edges) : g.edges[i].source = u})

out_degree(g, u) == Len(edge_range(g, u))

target(g, e) == g.edges[e].target

data(g, e) == g.edges[e].capacity

\* handle of the edge u -> v, 0 for None
find_edge(g, u, v) ==
    LET hits == {i \in 1 .. Len(g.edges) :
                    g.edges[i].source = u /\ g.edges[i].target = v}
    IN  IF hits = {} THEN 0 ELSE CHOOSE i \in hits : \A j \in hits : i <= j

\* a write that changes the capacity by twice the amount
AddCapacityTwice(g, e, delta) ==
    [g EXCEPT !.edges[e].capacity = g.edges[e].capacity + 2 * delta]

\* data_mut(e).capacity += delta
AddCapacity(g, e, delta) ==
    [g EXCEPT !.edges[e].capacity = g.edges[e].capacity + delta]

\* capacity of u -> v in g, 0 when there is no such edge
CapOf(g, u, v) ==
    LET e == find_edge(g, u, v) IN IF e = 0 THEN 0 ELSE data(g, e)

\* --------------------------------------------------- Dinic::from_edge_list
\* a list extended by nothing: no reverse edges
ExtendForwardOnly(l) == l

\* the reversed zero-capacity copies appended after the input edges
ExtendReversed(edge_list) ==
    edge_list \o [i \in 1 .. Len(edge_list) |-> ReverseZero(edge_list[i])]

\* the residual graph built by from_edge_list
ResidualGraph(edge_list) ==
    StaticGraphNew(DedupBy(<<>>, SortEdges(ExtendReversed(edge_list))))


\* ------------------------------------------------------------- Dinic::bfs
\* level after the init block of bfs(): MAX everywhere, 0 on the solver's
\* sources, MAX - 1 on its targets (the targets are written last)
BfsInitLevel(g, srcs, tgts) ==
    [i \in NodesOf(g) |->
        IF i \in Range(tgts) THEN USIZE_MAX - 1
        ELSE IF i \in Range(srcs) THEN 0
        ELSE USIZE_MAX]

\* a threshold that is off by one: an edge of capacity 1 counts as empty
BfsNoCapacityBelowTwo(capacity) == capacity < 2

\* `edge_data.capacity < 1`: the edge carries no residual capacity
BfsNoCapacity(capacity) == capacity < 1

\* a test that also takes an unlabelled target for a visited node
BfsVisitedOrTarget(lv, v) == lv[v] < USIZE_MAX

\* `self.level[v] < usize::MAX - 1`: v already has a level
BfsVisited(lv, v) == lv[v] < USIZE_MAX - 1

\* the for loop over u's edges; es are the handles still to look at
RECURSIVE BfsScan(_, _, _, _, _, _)
BfsScan(g, lv, q, found, u, es) ==
    IF es = <<>> THEN [level |-> lv, queue |-> q, found |-> found]
    ELSE LET e == Head(es)
             v == target(g, e)
         IN  IF BfsNoCapacity(data(g, e)) THEN BfsScan(g, lv, q, found, u, Tail(es))
             ELSE IF BfsVisited(lv, v) THEN BfsScan(g, lv, q, found, u, Tail(es))
             ELSE LET is_target == lv[v] = USIZE_MAX - 1
                      lv2 == [lv EXCEPT ![v] = lv[u] + 1]
                  IN  IF is_target
                      THEN BfsScan(g, lv2, q, TRUE, u, Tail(es))
                      ELSE BfsScan(g, lv2, Append(q, v), found, u, Tail(es))

\* `while let Some(u) = self.queue.pop_front()`
RECURSIVE BfsLoop(_, _, _, _)
BfsLoop(g, lv, q, found) ==
    IF q = <<>> THEN [level |-> lv, queue |-> q, found |-> found]
    ELSE LET r == BfsScan(g, lv, Tail(q), found, Head(q), edge_range(g, Head(q)))
         IN  BfsLoop(g, r.level, r.queue, r.found)

\* one call of bfs() on the solver's own sources and targets
bfs(g, q, srcs, tgts) ==
    BfsLoop(g, BfsInitLevel(g, srcs, tgts), q \o srcs, FALSE)

\* ------------------------------------------------------------- Dinic::dfs
\* parents after the init block of dfs()
DfsInitParents(g, srcs, tgts) ==
    [i \in NodesOf(g) |->
        IF i \in Range(tgts) THEN USIZE_MAX - 1
        ELSE IF i \in Range(srcs) THEN i
        ELSE USIZE_MAX]

\* a stack that starts every source with a flow of 1
DfsInitStackUnit(srcs) == [i \in 1 .. Len(srcs) |-> <<srcs[i], 1>>]

\* stack after the init block of dfs()
DfsInitStack(srcs) == [i \in 1 .. Len(srcs) |-> <<srcs[i], I32_MAX>>]

\* `self.parents[target] < NodeID::MAX - 1`: target already has a parent
DfsVisited(par, tg) == par[tg] < USIZE_MAX - 1

\* `self.level[node] > self.level[target]`: the edge goes down a level
DfsLevelPruned(lv, node, tg) == lv[node] > lv[tg]

\* a threshold that is off by one, unlike the one of bfs()
DfsNoCapacityBelowTwo(available_capacity) == available_capacity < 2

\* `available_capacity < 1`
DfsNoCapacity(available_capacity) == available_capacity < 1

\* the capacity of the last edge instead of the bottleneck of the path
PathFlowLastEdge(flow, available_capacity) == available_capacity

\* `min(flow, available_capacity)`
PathFlow(flow, available_capacity) == Min2(flow, available_capacity)

\* the for loop over node's edges; found = a target was reached at handle e
RECURSIVE DfsScan(_, _, _, _, _, _, _)
DfsScan(g, lv, par, st, node, flow, es) ==
    IF es = <<>>
    THEN [found |-> FALSE, parents |-> par, stack |-> st, v |-> 0, flow |-> 0]
    ELSE LET e == Head(es)
             tg == target(g, e)
             available_capacity == data(g, e)
         IN  IF DfsVisited(par, tg) THEN DfsScan(g, lv, par, st, node, flow, Tail(es))
             ELSE IF DfsLevelPruned(lv, node, tg)
                  THEN DfsScan(g, lv, par, st, node, flow, Tail(es))
             ELSE IF DfsNoCapacity(available_capacity)
                  THEN DfsScan(g, lv, par, st, node, flow, Tail(es))
             ELSE LET is_parent == par[tg] = USIZE_MAX - 1
                      par2 == [par EXCEPT ![tg] = node]
                      f == PathFlow(flow, available_capacity)
                  IN  IF is_parent
                      THEN [found |-> TRUE, parents |-> par2, stack |-> st,
                            v |-> tg, flow |-> f]
                      ELSE DfsScan(g, lv, par2, Append(st, <<tg, f>>), node, flow,
                                   Tail(es))

\* `while let Some((node, flow)) = self.stack.pop()`
RECURSIVE DfsLoop(_, _, _, _)
DfsLoop(g, lv, par, st) ==
    IF st = <<>>
    THEN [found |-> FALSE, parents |-> par, stack |-> st, v |-> 0, flow |-> 0]
    ELSE LET top == st[Len(st)]
             r == DfsScan(g, lv, par, SubSeq(st, 1, Len(st) - 1), top[1], top[2],
                          edge_range(g, top[1]))
         IN  IF r.found THEN r ELSE DfsLoop(g, lv, r.parents, r.stack)

\* the search of one dfs() call, up to the point where a target is reached
dfs(g, lv, srcs, tgts) ==
    DfsLoop(g, lv, DfsInitParents(g, srcs, tgts), DfsInitStack(srcs))

\* an unwinding step that forgets the reverse edge
AugmentForwardOnly(g, u, w, f) == AddCapacity(g, find_edge(g, u, w), 0 - f)

\* one iteration of the path unwinding loop for the edge u -> v:
\* forward capacity -= flow, reverse capacity += flow
Augment(g, u, v, flow) ==
    AddCapacity(AddCapacity(g, find_edge(g, u, v), 0 - flow),
                find_edge(g, v, u), flow)

\* ------------------------------------------------------ Dinic::assignment
\* a flood that also follows the edges without residual capacity
AssignFollowsAny(reached, capacity) == ~reached /\ capacity >= 0

\* `!reached && self.residual_graph.data(edge).capacity > 0`
AssignFollows(reached, capacity) == ~reached /\ capacity > 0

\* the for loop over node's edges: push unreached targets of positive edges
RECURSIVE AssignScan(_, _, _, _)
AssignScan(g, reachable, st, es) ==
    IF es = <<>> THEN st
    ELSE LET e == Head(es)
             tg == target(g, e)
         IN  IF AssignFollows(reachable[tg], data(g, e))
             THEN AssignScan(g, reachable, Append(st, tg), Tail(es))
             ELSE AssignScan(g, reachable, st, Tail(es))

\* `while let Some(node) = stack.pop()`
RECURSIVE AssignLoop(_, _, _)
AssignLoop(g, reachable, st) ==
    IF st = <<>> THEN reachable
    ELSE LET node == st[Len(st)]
             rest == SubSeq(st, 1, Len(st) - 1)
         IN  IF reachable[node] THEN AssignLoop(g, reachable, rest)
             ELSE LET r2 == [reachable EXCEPT ![node] = TRUE]
                  IN  AssignLoop(g, r2, AssignScan(g, r2, rest, edge_range(g, node)))

\* a bit vector that marks the given nodes and nothing else
ReachableSourcesOnly(g, srcs) == [i \in NodesOf(g) |-> i \in Range(srcs)]

\* the bit vector assignment(srcs) computes on a finished solver
Reachable(g, srcs) == AssignLoop(g, [i \in NodesOf(g) |-> FALSE], srcs)


\* ------------------------------------------------------------ solver state
VARIABLES
    \* Dinic: the edge list given to from_edge_list and the residual graph as
    \* from_edge_list built it, both kept as they were; the fields of the
    \* struct
    edge_list, built_graph, sources, targets,
    residual_graph, max_flow, finished, level, parents, stack,
    dfs_count, bfs_count, queue,
    \* Dinic: the arguments and locals of the run() in progress
    run_sources, run_targets, flow, v, pushed,
    \* where the caller of the Dinic solver stands, how many run() calls it
    \* has made, and what its last call returned
    pc, runs, result,
    \* Tarjan: the graph given to run(), the fields of the struct, the locals
    \* of the run() in progress
    graph, tarjan_stack, dfs_state, assignment, index, num_scc, n, last, top,
    \* where the caller of Tarjan stands, how many run() calls it has made,
    \* and the vector the last run() returned
    tpc, truns, tresult

dvars == <<edge_list, built_graph, sources, targets, residual_graph, max_flow, finished,
           level, parents, stack, dfs_count, bfs_count, queue,
           run_sources, run_targets, flow, v, pushed, pc, runs, result>>

\* the fields of the Dinic struct
solver == <<sources, targets, residual_graph, max_flow, finished, level,
            parents, stack, dfs_count, bfs_count, queue>>

tvars == <<graph, tarjan_stack, dfs_state, assignment, index, num_scc, n, last,
           top, tpc, truns, tresult>>

vars == <<dvars, tvars>>

\* ----------------------------------------------------------- Dinic inputs
\* the textbook networks of the tests of dinic.rs
ClrEdges ==
    << InputEdge(0, 1, 16), InputEdge(0, 2, 13), InputEdge(1, 2, 10),
       InputEdge(1, 3, 12), InputEdge(2, 1, 4), InputEdge(2, 4, 14),
       InputEdge(3, 2, 9), InputEdge(3, 5, 20), InputEdge(4, 3, 7),
       InputEdge(4, 5, 4) >>

ClrMultiEdges == ClrEdges \o << InputEdge(5, 6, 1), InputEdge(6, 1, 41) >>

ItaEdges ==
    << InputEdge(0, 1, 5), InputEdge(0, 4, 7), InputEdge(0, 5, 6),
       InputEdge(1, 2, 4), InputEdge(1, 7, 3), InputEdge(4, 7, 4),
       InputEdge(4, 6, 1), InputEdge(5, 6, 5), InputEdge(2, 3, 3),
       InputEdge(7, 3, 7), InputEdge(6, 7, 1), InputEdge(6, 3, 6) >>

YtEdges ==
    << InputEdge(9, 0, 5), InputEdge(9, 1, 10), InputEdge(9, 2, 15),
       InputEdge(0, 3, 10), InputEdge(1, 0, 15), InputEdge(1, 4, 20),
       InputEdge(2, 5, 25), InputEdge(3, 4, 25), InputEdge(3, 6, 10),
       InputEdge(4, 2, 5), InputEdge(4, 7, 30), InputEdge(5, 7, 20),
       InputEdge(5, 8, 10), InputEdge(7, 8, 15), InputEdge(6, 10, 5),
       InputEdge(7, 10, 15), InputEdge(8, 10, 10) >>

FfEdges ==
    << InputEdge(0, 1, 7), InputEdge(0, 2, 3), InputEdge(1, 2, 1),
       InputEdge(1, 3, 6), InputEdge(2, 4, 8), InputEdge(3, 5, 2),
       InputEdge(3, 2, 3), InputEdge(4, 3, 2), InputEdge(4, 5, 8) >>

\* a network on which the first augmenting path (0 2 4 5) has to be partly
\* undone: the second phase pushes flow back over the reverse edge 4 -> 2
DetourEdges ==
    << InputEdge(0, 1, 1), InputEdge(0, 2, 1), InputEdge(1, 4, 1),
       InputEdge(2, 3, 1), InputEdge(2, 4, 1), InputEdge(3, 5, 1),
       InputEdge(4, 5, 1) >>

\* the pairs of disjoint source and target sets of one or two nodes each,
\* as ascending sequences
SmallSets(nodes) ==
    {<<Ascending({a, b}), Ascending({c, d})>> :
        <<a, b, c, d>> \in {q \in nodes \X nodes \X nodes \X nodes :
                              {q[1], q[2]} \cap {q[3], q[4]} = {}}}

\* the pairs of one source and one other node as target
SinglePairs(nodes) ==
    {<<(<<a>>), (<<b>>)>> : <<a, b>> \in {q \in nodes \X nodes : q[1] # q[2]}}

\* a test network with other source and target sets
Variants(l, sets) ==
    {[edge_list |-> l, sources |-> st[1], targets |-> st[2]] : st \in sets}

TestVariants ==
    Variants(ClrEdges, SmallSets(0 .. 5)) \cup Variants(FfEdges, SmallSets(0 .. 5))
    \cup Variants(ClrMultiEdges, SinglePairs(0 .. 6))
    \cup Variants(ItaEdges, SinglePairs(0 .. 7))
    \cup Variants(YtEdges, SinglePairs(0 .. 10))
    \cup Variants(DetourEdges, SinglePairs(0 .. 5))

\* the solvers the tests construct
TestInputs ==
    { [edge_list |-> ClrEdges, sources |-> <<0>>, targets |-> <<5>>],
      [edge_list |-> ClrMultiEdges, sources |-> <<0>>, targets |-> <<5, 6>>],
      [edge_list |-> ItaEdges, sources |-> <<0>>, targets |-> <<3>>],
      [edge_list |-> YtEdges, sources |-> <<9>>, targets |-> <<10>>],
      [edge_list |-> FfEdges, sources |-> <<0>>, targets |-> <<5>>],
      [edge_list |-> FfEdges, sources |-> <<>>, targets |-> <<>>] }

\* the enumerated edges
EdgeTypes ==
    {InputEdge(a, b, c) : a \in 0 .. MaxNode, b \in 0 .. MaxNode, c \in 0 .. MaxCap}

\* the enumerated edge lists: from_edge_list sorts the list before anything
\* reads it, so one order of each multiset of edges stands for all of them
SmallLists ==
    UNION {{l \in [1 .. k -> EdgeTypes] :
               \A i \in 1 .. k - 1 : ~EdgeLess(l[i + 1], l[i])} : k \in 0 .. MaxEdges}

\* the source and target sets an enumerated edge list is solved for: no
\* sources and no targets, or disjoint sets of one or two of its nodes
SmallListSets(l) ==
    {<<(<<>>), (<<>>)>>} \cup SmallSets(0 .. NumberOfNodes(l) - 1)

\* the value a call returned: ok is Result::is_ok, value the flow of
\* Ok(flow), bits the bit vector of Ok(bits), arg assignment's argument
NoResult == [call |-> "none", ok |-> TRUE, value |-> 0, bits |-> <<>>, arg |-> <<>>]

Returned(call, ok, value, bits, arg) ==
    [call |-> call, ok |-> ok, value |-> value, bits |-> bits, arg |-> arg]

\* from_edge_list(edge_list, sources, targets)
from_edge_list(in) ==
    /\ edge_list = in.edge_list
    /\ built_graph = ResidualGraph(in.edge_list)
    /\ sources = in.sources
    /\ targets = in.targets
    /\ residual_graph = ResidualGraph(in.edge_list)
    /\ max_flow = 0
    /\ finished = FALSE
    /\ level = <<>>
    /\ parents = <<>>
    /\ stack = <<>>
    /\ dfs_count = 0
    /\ bfs_count = 0
    /\ queue = <<>>

DinicInit ==
    /\ \/ \E in \in TestInputs \cup TestVariants : from_edge_list(in)
       \/ \E l \in SmallLists : \E st \in SmallListSets(l) :
              from_edge_list([edge_list |-> l, sources |-> st[1], targets |-> st[2]])
    /\ run_sources = <<>>
    /\ run_targets = <<>>
    /\ flow = 0
    /\ v = 0
    /\ pushed = 0
    /\ pc = "new"
    /\ runs = 0
    /\ result = NoResult

\* ------------------------------------------------------------ Dinic::run
\* Vec::resize(n, x) of a vector held as a function on 0 .. len - 1
Resize(vec, len, x) ==
    [i \in 0 .. len - 1 |-> IF i \in DOMAIN vec THEN vec[i] ELSE x]

\* the argument pairs run() is called with: the sets given at construction,
\* or the same two sets swapped
RunArgs == {<<sources, targets>>, <<targets, sources>>}

\* entry of run(srcs, tgts), up to `let mut flow = 0`
Run(srcs, tgts) ==
    /\ UNCHANGED tvars
    /\ pc \in {"new", "done"}
    /\ runs < MaxRuns
    /\ runs' = runs + 1
    /\ run_sources' = srcs
    /\ run_targets' = tgts
    /\ parents' = Resize(parents, number_of_nodes(residual_graph), 0)
    /\ level' = Resize(level, number_of_nodes(residual_graph), USIZE_MAX)
    /\ flow' = 0
    /\ pc' = "bfs"
    /\ result' = NoResult
    /\ UNCHANGED <<edge_list, built_graph, sources, targets, residual_graph, max_flow,
                   finished, stack, dfs_count, bfs_count, queue, v, pushed>>

\* `if !self.bfs() { break; }` taken: bfs() found no target, run() stores
\* the flow and returns
BfsBreak ==
    /\ UNCHANGED tvars
    /\ pc = "bfs"
    /\ LET r == bfs(residual_graph, queue, sources, targets)
       IN  /\ ~r.found
           /\ level' = r.level
           /\ queue' = r.queue
    /\ bfs_count' = bfs_count + 1
    /\ max_flow' = flow
    /\ finished' = TRUE
    /\ pc' = "done"
    /\ result' = Returned("run", TRUE, 0, <<>>, <<>>)
    /\ UNCHANGED <<edge_list, built_graph, sources, targets, residual_graph, parents, stack,
                   dfs_count, run_sources, run_targets, flow, v, pushed, runs>>

\* bfs() returned true: go on to the dfs() calls of this phase
BfsFound ==
    /\ UNCHANGED tvars
    /\ pc = "bfs"
    /\ LET r == bfs(residual_graph, queue, sources, targets)
       IN  /\ r.found
           /\ level' = r.level
           /\ queue' = r.queue
    /\ bfs_count' = bfs_count + 1
    /\ pc' = "dfs"
    /\ UNCHANGED <<edge_list, built_graph, sources, targets, residual_graph, max_flow,
                   finished, parents, stack, dfs_count, run_sources, run_targets,
                   flow, v, pushed, runs, result>>

\* a dfs() call whose search reaches a target: the path is unwound next
DfsReach ==
    /\ UNCHANGED tvars
    /\ pc = "dfs"
    /\ LET r == dfs(residual_graph, level, sources, targets)
       IN  /\ r.found
           /\ parents' = r.parents
           /\ stack' = r.stack
           /\ v' = r.v
           /\ pushed' = r.flow
    /\ dfs_count' = dfs_count + 1
    /\ pc' = "unwind"
    /\ UNCHANGED <<edge_list, built_graph, sources, targets, residual_graph, max_flow,
                   finished, level, bfs_count, queue, run_sources, run_targets,
                   flow, runs, result>>

\* a dfs() call that returns None: the phase is over, back to bfs()
DfsNone ==
    /\ UNCHANGED tvars
    /\ pc = "dfs"
    /\ LET r == dfs(residual_graph, level, sources, targets)
       IN  /\ ~r.found
           /\ parents' = r.parents
           /\ stack' = r.stack
    /\ dfs_count' = dfs_count + 1
    /\ pc' = "bfs"
    /\ UNCHANGED <<edge_list, built_graph, sources, targets, residual_graph, max_flow,
                   finished, level, bfs_count, queue, run_sources, run_targets,
                   flow, v, pushed, runs, result>>

\* one iteration of the unwinding loop that does not break; a find_edge
\* that returns None makes the unwrap panic
UnwindStep ==
    /\ UNCHANGED tvars
    /\ pc = "unwind"
    /\ parents[v] # v
    /\ LET u == parents[v]
       IN  IF find_edge(residual_graph, u, v) = 0 \/ find_edge(residual_graph, v, u) = 0
           THEN /\ pc' = "panic"
                /\ UNCHANGED <<residual_graph, v>>
           ELSE /\ residual_graph' = Augment(residual_graph, u, v, pushed)
                /\ v' = u
                /\ pc' = pc
    /\ UNCHANGED <<edge_list, built_graph, sources, targets, max_flow, finished, level,
                   parents, stack, dfs_count, bfs_count, queue, run_sources,
                   run_targets, flow, pushed, runs, result>>

\* a run() that counts every augmentation twice
AccumulateTwice(fl, amount) == fl + 2 * amount

\* `flow += pushed`
Accumulate(fl, amount) == fl + amount

\* `if u == v { break; }` and `return Some(flow)`; run() adds it to its flow
DfsReturn ==
    /\ UNCHANGED tvars
    /\ pc = "unwind"
    /\ parents[v] = v
    /\ flow' = Accumulate(flow, pushed)
    /\ v' = 0
    /\ pushed' = 0
    /\ pc' = "dfs"
    /\ UNCHANGED <<edge_list, built_graph, sources, targets, residual_graph, max_flow,
                   finished, level, parents, stack, dfs_count, bfs_count, queue,
                   run_sources, run_targets, runs, result>>

\* ---------------------------------------- Dinic::max_flow, ::assignment
\* an assignment() that hands out the bit vector of the assignment() call
\* before it, if the last call was one, instead of computing it
assignment_cached(fin, g, srcs) ==
    IF ~fin THEN [call |-> "assignment", ok |-> FALSE, value |-> 0, bits |-> <<>>,
                  arg |-> srcs]
    ELSE IF result.call = "assignment" /\ result.ok
         THEN [result EXCEPT !.arg = srcs]
         ELSE [call |-> "assignment", ok |-> TRUE, value |-> 0,
               bits |-> Reachable(g, srcs), arg |-> srcs]

\* max_flow() without the check of `finished`
max_flow_unchecked(fin, mf) == [call |-> "max_flow", ok |-> TRUE, value |-> mf,
                                bits |-> <<>>, arg |-> <<>>]

\* what max_flow() returns
max_flow_result(fin, mf) ==
    IF ~fin THEN Returned("max_flow", FALSE, 0, <<>>, <<>>)
    ELSE Returned("max_flow", TRUE, mf, <<>>, <<>>)

\* what assignment(srcs) returns
assignment_result(fin, g, srcs) ==
    IF ~fin THEN Returned("assignment", FALSE, 0, <<>>, srcs)
    ELSE Returned("assignment", TRUE, 0, Reachable(g, srcs), srcs)

\* the arguments assignment() is called with: the solver's sources or its
\* targets
AssignmentArgs == {sources, targets}

MaxFlowCall ==
    /\ UNCHANGED tvars
    /\ pc \in {"new", "done"}
    /\ result' = max_flow_result(finished, max_flow)
    /\ UNCHANGED <<edge_list, built_graph, solver, run_sources, run_targets, flow, v, pushed,
                   pc, runs>>

AssignmentCall(srcs) ==
    /\ UNCHANGED tvars
    /\ pc \in {"new", "done"}
    /\ result' = assignment_result(finished, residual_graph, srcs)
    /\ UNCHANGED <<edge_list, built_graph, solver, run_sources, run_targets, flow, v, pushed,
                   pc, runs>>

DinicNext ==
    \/ \E a \in RunArgs : Run(a[1], a[2])
    \/ BfsBreak
    \/ BfsFound
    \/ DfsReach
    \/ DfsNone
    \/ UnwindStep
    \/ DfsReturn
    \/ MaxFlowCall
    \/ \E a \in AssignmentArgs : AssignmentCall(a)


\* ================================================================ Tarjan
\* NodeInfo::new(): every field at its "unvisited" sentinel
NodeInfoNew ==
    [index |-> USIZE_MAX, lowlink |-> USIZE_MAX, caller |-> USIZE_MAX,
     neighbor |-> USIZE_MAX, on_stack |-> FALSE]

\* Tarjan::new()
TarjanNew ==
    /\ tarjan_stack = <<>>
    /\ dfs_state = <<>>
    /\ assignment = <<>>
    /\ index = 0
    /\ num_scc = 0
    /\ n = 0
    /\ last = 0
    /\ top = 0
    /\ tpc = "new"
    /\ truns = 0
    /\ tresult = <<>>

\* the graph of the test scc_wiki1
WikiEdges ==
    << InputEdge(0, 1, 3), InputEdge(1, 2, 3), InputEdge(1, 4, 1),
       InputEdge(1, 5, 6), InputEdge(2, 3, 2), InputEdge(2, 6, 2),
       InputEdge(3, 2, 2), InputEdge(3, 7, 2), InputEdge(4, 0, 2),
       InputEdge(4, 5, 2), InputEdge(5, 6, 2), InputEdge(6, 5, 2),
       InputEdge(7, 3, 2), InputEdge(7, 6, 2) >>

\* the enumerated edges of the graphs given to Tarjan (the payload is not
\* read by Tarjan)
SccEdgeTypes == {InputEdge(a, b, 0) : a \in 0 .. SccMaxNode, b \in 0 .. SccMaxNode}

\* the enumerated edge lists, one order of each set of edges (StaticGraph
\* sorts the list)
SccLists ==
    UNION {{l \in [1 .. k -> SccEdgeTypes] :
               \A i \in 1 .. k - 1 : EdgeLess(l[i], l[i + 1])} : k \in 0 .. SccMaxEdges}

\* the graph of the test and every prefix of its edge list
WikiLists == {SubSeq(WikiEdges, 1, k) : k \in 0 .. Len(WikiEdges)}

TarjanInit ==
    /\ \E l \in WikiLists \cup SccLists : graph = StaticGraphNew(l)
    /\ TarjanNew

\* entry of run(graph), up to the for loop
TarjanRun ==
    /\ tpc \in {"new", "returned"}
    /\ truns < SccMaxRuns
    /\ truns' = truns + 1
    /\ assignment' = [i \in NodesOf(graph) |-> USIZE_MAX]
    /\ index' = 0
    /\ num_scc' = 0
    /\ dfs_state' = Resize(dfs_state, number_of_nodes(graph), NodeInfoNew)
    /\ n' = 0
    /\ tpc' = "for"
    /\ tresult' = <<>>
    /\ UNCHANGED <<graph, tarjan_stack, last, top>>
    /\ UNCHANGED dvars

\* `if self.dfs_state[n].index != usize::MAX { continue; }`
ForSkip ==
    /\ tpc = "for"
    /\ n < number_of_nodes(graph)
    /\ dfs_state[n].index # USIZE_MAX
    /\ n' = n + 1
    /\ UNCHANGED <<graph, tarjan_stack, dfs_state, assignment, index, num_scc,
                   last, top, tpc, truns, tresult>>
    /\ UNCHANGED dvars

\* a discovery that starts the edge cursor behind the first edge
DiscoveredPastFirstEdge(info, idx, caller) ==
    [info EXCEPT !.index = idx, !.lowlink = idx, !.neighbor = 1,
                 !.caller = caller, !.on_stack = TRUE]

\* the record of a node at its discovery
Discovered(info, idx, caller) ==
    [info EXCEPT !.index = idx, !.lowlink = idx, !.neighbor = 0,
                 !.caller = caller, !.on_stack = TRUE]

\* n is unvisited: it becomes the root of a new DFS tree
ForRoot ==
    /\ tpc = "for"
    /\ n < number_of_nodes(graph)
    /\ dfs_state[n].index = USIZE_MAX
    /\ dfs_state' = [dfs_state EXCEPT ![n] = Discovered(@, index, USIZE_MAX)]
    /\ index' = index + 1
    /\ tarjan_stack' = Append(tarjan_stack, n)
    /\ last' = n
    /\ tpc' = "loop"
    /\ UNCHANGED <<graph, assignment, num_scc, n, top, truns, tresult>>
    /\ UNCHANGED dvars

\* the for loop is over: run() returns the assignment
ForEnd ==
    /\ tpc = "for"
    /\ n = number_of_nodes(graph)
    /\ tresult' = assignment
    /\ tpc' = "returned"
    /\ UNCHANGED <<graph, tarjan_stack, dfs_state, assignment, index, num_scc, n,
                   last, top, truns>>
    /\ UNCHANGED dvars

\* the target of the next edge of `last` to examine
NextTarget ==
    target(graph, edge_range(graph, last)[dfs_state[last].neighbor + 1])

HasEdge == dfs_state[last].neighbor < out_degree(graph, last)

\* the next edge leads to an unvisited node: descend into it
EdgeDescend ==
    /\ tpc = "loop"
    /\ HasEdge
    /\ LET w == NextTarget
       IN  /\ dfs_state[w].index = USIZE_MAX
           /\ dfs_state' = [dfs_state EXCEPT
                  ![last].neighbor = @ + 1,
                  ![w] = Discovered(@, index, last)]
           /\ index' = index + 1
           /\ tarjan_stack' = Append(tarjan_stack, w)
           /\ last' = w
    /\ UNCHANGED <<graph, assignment, num_scc, n, top, tpc, truns, tresult>>
    /\ UNCHANGED dvars

\* a back edge that leaves the lowlink as it is
BackLinkKept(prev_link, w_index) == prev_link

\* `min(prev_link, self.dfs_state[w].index)`
BackLink(prev_link, w_index) == Min2(prev_link, w_index)

\* the next edge leads to a node on the stack: lower the lowlink
EdgeOnStack ==
    /\ tpc = "loop"
    /\ HasEdge
    /\ LET w == NextTarget
       IN  /\ dfs_state[w].index # USIZE_MAX
           /\ dfs_state[w].on_stack
           /\ dfs_state' = [dfs_state EXCEPT
                  ![last] = [@ EXCEPT !.neighbor = @ + 1,
                                      !.lowlink = BackLink(@, dfs_state[w].index)]]
    /\ UNCHANGED <<graph, tarjan_stack, assignment, index, num_scc, n, last, top,
                   tpc, truns, tresult>>
    /\ UNCHANGED dvars

\* the next edge leads to a node of a closed component: only the cursor moves
EdgeClosed ==
    /\ tpc = "loop"
    /\ HasEdge
    /\ LET w == NextTarget
       IN  /\ dfs_state[w].index # USIZE_MAX
           /\ ~dfs_state[w].on_stack
    /\ dfs_state' = [dfs_state EXCEPT ![last].neighbor = @ + 1]
    /\ UNCHANGED <<graph, tarjan_stack, assignment, index, num_scc, n, last, top,
                   tpc, truns, tresult>>
    /\ UNCHANGED dvars

\* a test that takes no node for the root of a component
IsRootNever(info) == FALSE

\* `self.dfs_state[last].lowlink == self.dfs_state[last].index`
IsRoot(info) == info.lowlink = info.index

\* one `tarjan_stack.pop()` with the two assignments that follow it; the
\* expect panics on an empty stack
PopOne(scc) ==
    IF tarjan_stack = <<>>
    THEN /\ tpc' = "panic"
         /\ UNCHANGED <<tarjan_stack, dfs_state, assignment, top>>
    ELSE LET t == tarjan_stack[Len(tarjan_stack)]
         IN  /\ tarjan_stack' = SubSeq(tarjan_stack, 1, Len(tarjan_stack) - 1)
             /\ top' = t
             /\ dfs_state' = [dfs_state EXCEPT ![t].on_stack = FALSE]
             /\ assignment' = [assignment EXCEPT ![t] = scc]
             /\ tpc' = IF t # last THEN "pop" ELSE "return"

\* a counter of components that is never moved
NextSccStuck(num) == num

\* `num_scc += 1`
NextScc(num) == num + 1

\* the edges of `last` are exhausted and it is the root of a component:
\* num_scc += 1 and the first pop
CloseBegin ==
    /\ tpc = "loop"
    /\ ~HasEdge
    /\ IsRoot(dfs_state[last])
    /\ num_scc' = NextScc(num_scc)
    /\ PopOne(NextScc(num_scc))
    /\ UNCHANGED <<graph, index, n, last, truns, tresult>>
    /\ UNCHANGED dvars

\* one iteration of `while top != last`
ClosePop ==
    /\ tpc = "pop"
    /\ PopOne(num_scc)
    /\ UNCHANGED <<graph, index, num_scc, n, last, truns, tresult>>
    /\ UNCHANGED dvars

\* a return that does not hand the lowlink of the child to its caller
ReturnLinkKept(caller_link, last_link) == caller_link

\* `min(self.dfs_state[new_last].lowlink, self.dfs_state[last].lowlink)`
ReturnLink(caller_link, last_link) == Min2(caller_link, last_link)

\* the return to the caller of `last`, or the break out of the loop when
\* `last` is the root of its DFS tree
ReturnOrBreak ==
    LET new_last == dfs_state[last].caller
    IN  IF new_last # USIZE_MAX
        THEN /\ dfs_state' = [dfs_state EXCEPT
                    ![new_last].lowlink = ReturnLink(@, dfs_state[last].lowlink)]
             /\ last' = new_last
             /\ tpc' = "loop"
             /\ n' = n
        ELSE /\ n' = n + 1
             /\ tpc' = "for"
             /\ UNCHANGED <<dfs_state, last>>

\* the edges of `last` are exhausted and it is not the root of a component
ReturnNoClose ==
    /\ tpc = "loop"
    /\ ~HasEdge
    /\ ~IsRoot(dfs_state[last])
    /\ ReturnOrBreak
    /\ UNCHANGED <<graph, tarjan_stack, assignment, index, num_scc, top, truns,
                   tresult>>
    /\ UNCHANGED dvars

\* the component of `last` is closed
ReturnAfterClose ==
    /\ tpc = "return"
    /\ ReturnOrBreak
    /\ UNCHANGED <<graph, tarjan_stack, assignment, index, num_scc, top, truns,
                   tresult>>
    /\ UNCHANGED dvars

TarjanNext ==
    \/ TarjanRun
    \/ ForSkip
    \/ ForRoot
    \/ ForEnd
    \/ EdgeDescend
    \/ EdgeOnStack
    \/ EdgeClosed
    \/ CloseBegin
    \/ ClosePop
    \/ ReturnNoClose
    \/ ReturnAfterClose

\* ======================================================== specifications
\* a Dinic solver built by from_edge_list, beside a Tarjan instance that is
\* never run
Init ==
    /\ DinicInit
    /\ graph = StaticGraphNew(<<>>)
    /\ TarjanNew

Next == DinicNext

Spec == Init /\ [][Next]_vars

\* a Tarjan instance and the graph it is run on, beside a Dinic solver that
\* is never run
SccInit ==
    /\ TarjanInit
    /\ from_edge_list([edge_list |-> <<>>, sources |-> <<>>, targets |-> <<>>])
    /\ run_sources = <<>>
    /\ run_targets = <<>>
    /\ flow = 0
    /\ v = 0
    /\ pushed = 0
    /\ pc = "new"
    /\ runs = 0
    /\ result = NoResult

SccNext == TarjanNext

SccSpec == SccInit /\ [][SccNext]_vars

\* run() is one sequential loop: once it was entered, the step it stands at
\* is taken; whether run() is called at all is up to the caller
TarjanStep ==
    \/ ForSkip
    \/ ForRoot
    \/ ForEnd
    \/ EdgeDescend
    \/ EdgeOnStack
    \/ EdgeClosed
    \/ CloseBegin
    \/ ClosePop
    \/ ReturnNoClose
    \/ ReturnAfterClose

SccLiveSpec == SccInit /\ [][SccNext]_vars /\ WF_vars(TarjanStep)


\* ===================================================== reference notions
\* the nodes an edge list refers to
ListNodes(l) == 0 .. NumberOfNodes(l) - 1

\* total capacity of the edges of the list l that leave the node set X
RECURSIVE CutCapacity(_, _)
CutCapacity(l, X) ==
    IF l = <<>> THEN 0
    ELSE (IF Head(l).source \in X /\ Head(l).target \notin X
          THEN Head(l).capacity ELSE 0) + CutCapacity(Tail(l), X)

\* the cuts that separate the sources S from the targets T
Cuts(l, S, T) == {X \in SUBSET ListNodes(l) : S \subseteq X /\ X \cap T = {}}

\* the minimum capacity over all cuts separating S from T, which is the
\* value of a maximum flow from S to T
MinCut(l, S, T) ==
    LET caps == {CutCapacity(l, X) : X \in Cuts(l, S, T)}
    IN  CHOOSE c \in caps : \A d \in caps : c <= d

\* the edge list with each group of parallel edges replaced by one edge, at
\* the place of the first of them, that carries the sum of their capacities
RECURSIVE ParallelSum(_, _, _)
ParallelSum(l, a, b) ==
    IF l = <<>> THEN 0
    ELSE (IF Head(l).source = a /\ Head(l).target = b THEN Head(l).capacity ELSE 0)
         + ParallelSum(Tail(l), a, b)

RECURSIVE MergeParallel(_, _)
MergeParallel(seen, l) ==
    IF l = <<>> THEN <<>>
    ELSE LET e == Head(l)
         IN  IF <<e.source, e.target>> \in seen
             THEN MergeParallel(seen, Tail(l))
             ELSE <<InputEdge(e.source, e.target, ParallelSum(l, e.source, e.target))>>
                  \o MergeParallel(seen \cup {<<e.source, e.target>>}, Tail(l))

\* the whole path unwinding loop
RECURSIVE UnwindAll(_, _, _, _)
UnwindAll(g, par, w, f) ==
    IF par[w] = w THEN g ELSE UnwindAll(Augment(g, par[w], w, f), par, par[w], f)

\* `while let Some(pushed) = self.dfs() { flow += pushed; }`
RECURSIVE DfsAll(_, _, _, _, _)
DfsAll(g, lv, srcs, tgts, fl) ==
    LET r == dfs(g, lv, srcs, tgts)
    IN  IF r.found
        THEN DfsAll(UnwindAll(g, r.parents, r.v, r.flow), lv, srcs, tgts, fl + r.flow)
        ELSE [graph |-> g, flow |-> fl]

\* the loop of run() from a residual graph to the end: the final residual
\* graph and the flow
RECURSIVE RunToEnd(_, _, _, _)
RunToEnd(g, srcs, tgts, fl) ==
    LET b == bfs(g, <<>>, srcs, tgts)
    IN  IF ~b.found THEN [graph |-> g, flow |-> fl]
        ELSE LET d == DfsAll(g, b.level, srcs, tgts, fl)
             IN  RunToEnd(d.graph, srcs, tgts, d.flow)

\* the nodes reachable from the node set X in the graph g
RECURSIVE ReachSet(_, _)
ReachSet(g, X) ==
    LET Y == X \cup {g.edges[i].target :
                        i \in {j \in 1 .. Len(g.edges) : g.edges[j].source \in X}}
    IN  IF Y = X THEN X ELSE ReachSet(g, Y)

\* the nodes reachable from the node set X in the graph g along edges of
\* capacity at least 1
RECURSIVE PositiveReach(_, _)
PositiveReach(g, X) ==
    LET Y == X \cup {g.edges[i].target :
                        i \in {j \in 1 .. Len(g.edges) :
                                  g.edges[j].source \in X /\ g.edges[j].capacity >= 1}}
    IN  IF Y = X THEN X ELSE PositiveReach(g, Y)

\* the levels of a breadth-first labelling by whole layers: the nodes of
\* `frontier` have level k; the unlabelled heads of their edges of capacity
\* at least 1 get level k + 1, and those of them outside T form the next
\* frontier
RECURSIVE HopLayers(_, _, _, _, _)
HopLayers(g, T, frontier, k, lv) ==
    LET heads == {g.edges[i].target :
                     i \in {j \in 1 .. Len(g.edges) :
                               /\ g.edges[j].source \in frontier
                               /\ g.edges[j].capacity >= 1
                               /\ lv[g.edges[j].target] >= USIZE_MAX - 1}}
    IN  IF heads = {} THEN lv
        ELSE HopLayers(g, T, heads \ T, k + 1,
                       [i \in DOMAIN lv |-> IF i \in heads THEN k + 1 ELSE lv[i]])

\* the hop distances from the nearest node of S over edges of capacity at
\* least 1 on paths with no node of T inside: usize::MAX for a node that is
\* not reached, usize::MAX - 1 for a node of T that is not reached
HopLevels(g, S, T) ==
    HopLayers(g, T, S \ T, 0,
              [i \in 0 .. g.n - 1 |->
                  IF i \in T THEN USIZE_MAX - 1 ELSE IF i \in S THEN 0 ELSE USIZE_MAX])

\* the nodes met walking back from w over `par` until a node that is its
\* own parent, w first; the walk is given up, with -1 as its last entry,
\* when it leaves the nodes or takes more than k steps
RECURSIVE ParentChain(_, _, _)
ParentChain(par, w, k) ==
    IF w \notin DOMAIN par \/ k = 0 THEN <<-1>>
    ELSE IF par[w] = w THEN <<w>>
    ELSE <<w>> \o ParentChain(par, par[w], k - 1)

\* the least capacity in g over the edges c[i + 1] -> c[i] of the chain c
ChainBottleneck(g, c) ==
    LET caps == {CapOf(g, c[i + 1], c[i]) : i \in 1 .. Len(c) - 1}
    IN  CHOOSE m \in caps : \A d \in caps : m <= d

\* the callers of node a, its caller first: the nodes met following the
\* `caller` field from a until usize::MAX; the walk is given up, with -1 as
\* its last entry, when it leaves the nodes or takes more than k steps
RECURSIVE CallerChain(_, _, _)
CallerChain(st, a, k) ==
    IF a \notin DOMAIN st \/ k = 0 THEN <<-1>>
    ELSE IF st[a].caller = USIZE_MAX THEN <<>>
    ELSE <<st[a].caller>> \o CallerChain(st, st[a].caller, k - 1)

\* the flow the graph `now` carries out of the node set X, summed over the
\* edges e .. Len of the graphs with their source in X: the flow of an edge
\* is its capacity in `built` minus its capacity in `now`
RECURSIVE NetFlowOut(_, _, _, _)
NetFlowOut(built, now, X, e) ==
    IF e > Len(built.edges) THEN 0
    ELSE (IF built.edges[e].source \in X
          THEN built.edges[e].capacity - now.edges[e].capacity ELSE 0)
         + NetFlowOut(built, now, X, e + 1)

MutuallyReachable(g, a, b) == b \in ReachSet(g, {a}) /\ a \in ReachSet(g, {b})

\* the residual graph right after construction
Cap0 == built_graph

\* the first run() of a freshly built solver has completed, and it was
\* called with the sets given at construction
FirstRunDone ==
    /\ pc = "done"
    /\ runs = 1
    /\ run_sources = sources
    /\ run_targets = targets

\* the first run() of a fresh Tarjan instance has returned
FirstSccReturned == tpc = "returned" /\ truns = 1

\* ================================================================ claims
\* C1: after the first run() of a solver built for disjoint source and
\* target sets and run with the same sets, max_flow() returns Ok(f) with f
\* the value of a maximum flow from the sources to the targets, which is the
\* minimum capacity over all cuts that separate them.
C1_MaxFlowIsMinCut ==
    (FirstRunDone /\ result.call = "max_flow") =>
        /\ result.ok
        /\ result.value = MinCut(edge_list, Range(sources), Range(targets))

\* max_flow() has returned 23 on the network of the test max_flow_clr
C1_Witness ==
    /\ FirstRunDone
    /\ edge_list = ClrEdges /\ sources = <<0>> /\ targets = <<5>>
    /\ result.call = "max_flow"
    /\ result.value = 23

\* C2: after the first run(), the nodes marked by assignment(sources) form a
\* cut whose forward capacity, summed over the capacities the residual edges
\* had at construction, equals the value max_flow() returns.
C2_CutEqualsFlow ==
    (FirstRunDone /\ result.call = "assignment" /\ result.arg = sources) =>
        /\ result.ok
        /\ CutCapacity(Cap0.edges, {i \in DOMAIN result.bits : result.bits[i]})
             = max_flow_result(finished, max_flow).value

\* assignment(sources) has returned on the network of the test max_flow_yt,
\* where only the source is marked and the cut carries 30
C2_Witness ==
    /\ FirstRunDone
    /\ edge_list = YtEdges /\ sources = <<9>> /\ targets = <<10>>
    /\ result.call = "assignment" /\ result.arg = sources
    /\ {i \in DOMAIN result.bits : result.bits[i]} = {9}
    /\ max_flow = 30

\* C3: in every state, the residual graph has the edges it was built with,
\* and for every residual edge u -> v and its reverse edge v -> u,
\* cap(u -> v) + cap(v -> u) is what it was right after construction.
C3_CapacityConservation ==
    LET built == Cap0.edges
        now == residual_graph.edges
    IN  /\ Len(now) = Len(built)
        /\ \A e \in 1 .. Len(now) :
              /\ SameBucket(now[e], built[e])
              /\ \A r \in 1 .. Len(now) :
                    (now[r].source = now[e].target /\ now[r].target = now[e].source) =>
                        now[e].capacity + now[r].capacity
                          = built[e].capacity + built[r].capacity

\* the unwinding loop has done a step and has more to do: one edge of the
\* path is augmented, the next one not yet
C3_Witness ==
    /\ pc = "unwind"
    /\ parents[v] # v
    /\ LET built == Cap0
       IN  /\ residual_graph # built
           /\ CapOf(residual_graph, parents[v], v) = CapOf(built, parents[v], v)

\* C4: the input capacities being non-negative, no residual edge capacity is
\* below zero in any state.
C4_NonNegativeCapacity ==
    (\A i \in 1 .. Len(edge_list) : edge_list[i].capacity >= 0) =>
        \A e \in 1 .. Len(residual_graph.edges) : data(residual_graph, e) >= 0

\* an augmentation has used up an edge: it had capacity at construction and
\* has none left, while the path carried less than another edge could take
C4_Witness ==
    /\ pc = "dfs"
    /\ LET built == Cap0
       IN  /\ \E e \in 1 .. Len(residual_graph.edges) :
                 data(built, e) > 0 /\ data(residual_graph, e) = 0
           /\ \E e \in 1 .. Len(residual_graph.edges) :
                 data(built, e) > data(residual_graph, e) /\ data(residual_graph, e) > 0

\* C5: the vector the first run() of a Tarjan instance returns gives two
\* nodes the same id exactly when each is reachable from the other.
C5_SccPartition ==
    FirstSccReturned =>
        \A a, b \in NodesOf(graph) :
            (tresult[a] = tresult[b]) <=> MutuallyReachable(graph, a, b)

\* run() has returned on the graph of the test scc_wiki1, with three
\* components of more than one node each
C5_Witness ==
    /\ FirstSccReturned
    /\ graph = StaticGraphNew(WikiEdges)
    /\ tresult[2] = tresult[7] /\ tresult[0] = tresult[4] /\ tresult[5] # tresult[7]

\* C6: in the vector the first run() returns, every edge between two
\* components goes from the higher id to the lower id.
C6_ReverseTopological ==
    FirstSccReturned =>
        \A e \in 1 .. Len(graph.edges) :
            LET a == graph.edges[e].source
                b == graph.edges[e].target
            IN  tresult[a] # tresult[b] => tresult[b] < tresult[a]

\* run() has returned on a graph with an edge from a node of a component of
\* two nodes to another component
C6_Witness ==
    /\ FirstSccReturned
    /\ \E e \in 1 .. Len(graph.edges) :
          LET a == graph.edges[e].source
              b == graph.edges[e].target
          IN  /\ tresult[a] # tresult[b]
              /\ \E c \in NodesOf(graph) : c # a /\ tresult[c] = tresult[a]

\* on return of the first run(): every node has an id, the ids are 1 .. k,
\* k the number of components closed
C7_DenseIds ==
    FirstSccReturned =>
        /\ \A a \in NodesOf(graph) : tresult[a] \in 1 .. num_scc
        /\ \A k \in 1 .. num_scc : \E a \in NodesOf(graph) : tresult[a] = k

\* within one run(), an id once assigned to a node is not written again
C7_AssignedOnce ==
    (truns' = truns) =>
        \A a \in DOMAIN assignment :
            assignment[a] # USIZE_MAX => assignment'[a] = assignment[a]

\* C7: on return of the first run() of a Tarjan instance every node has
\* exactly one component id, assigned exactly once, and the ids used are
\* exactly 1 .. k, k the number of components closed; no node is left at
\* usize::MAX.
C7_OneDenseIdPerNode == [](C7_DenseIds) /\ [][C7_AssignedOnce]_vars

\* run() has returned with two components, one of them of two nodes
C7_Witness ==
    /\ FirstSccReturned
    /\ num_scc = 2
    /\ \E a, b \in NodesOf(graph) : a # b /\ tresult[a] = tresult[b]

\* a step in which max_flow() or assignment() returns
QueryReturns == result' # result /\ result'.call \in {"max_flow", "assignment"}

\* C8: max_flow() and assignment() return Err as long as no run() has
\* completed and Ok once one has, they never panic and never change the
\* solver, and `finished`, once set, is never cleared.
C8_NotComputed ==
    [][/\ QueryReturns => /\ result'.ok <=> finished
                          /\ UNCHANGED solver
                          /\ pc' = pc
       /\ finished => finished'
       /\ finished' = (finished \/ pc' = "done")]_vars

\* assignment() has returned Err on a solver that was never run
C8_Witness ==
    /\ pc = "new"
    /\ ~finished
    /\ result.call = "assignment"
    /\ ~result.ok

\* C9: the residual graph built from an edge list is the one built from the
\* list with its parallel edges replaced by one edge of the summed capacity;
\* no two residual edges share (source, target); and the first run() ends
\* with the flow and the residual graph, hence the assignment, that a run on
\* the solver built from the merged list ends with.
C9_MergeParallelEdges ==
    LET merged == ResidualGraph(MergeParallel({}, edge_list))
    IN  /\ pc = "new" => residual_graph = merged
        /\ \A i, j \in 1 .. Len(residual_graph.edges) :
              i # j => ~SameBucket(residual_graph.edges[i], residual_graph.edges[j])
        /\ (FirstRunDone /\ result.call = "run") =>
              LET r == RunToEnd(merged, sources, targets, 0)
              IN  /\ max_flow = r.flow
                  /\ residual_graph = r.graph
                  /\ \A a \in AssignmentArgs :
                        assignment_result(finished, residual_graph, a)
                          = assignment_result(TRUE, r.graph, a)

\* the first run() has pushed flow over two parallel input edges that both
\* carry capacity
C9_Witness ==
    /\ FirstRunDone
    /\ max_flow = 2
    /\ \E i, j \in 1 .. Len(edge_list) :
          /\ i < j
          /\ SameBucket(edge_list[i], edge_list[j])
          /\ edge_list[i].capacity = 1
          /\ edge_list[j].capacity = 1

\* C10: a run() that has completed reports, through max_flow(), the maximum
\* flow between the source and target sets passed to that run() call.
C10_RunUsesItsArguments ==
    pc = "done" =>
        max_flow_result(finished, max_flow).value
          = MinCut(edge_list, Range(run_sources), Range(run_targets))

\* C11: at the start of every run() of a Tarjan instance the record of every
\* node is the "unvisited" record of NodeInfo::new(), and every run() that
\* returns, the first one or a later one on the same instance, returns a
\* valid assignment: every node has an id, and two nodes have the same id
\* exactly when each is reachable from the other.
C11_ResetAtEveryRun ==
    /\ (tpc = "for" /\ n = 0) =>
          \A a \in NodesOf(graph) : dfs_state[a] = NodeInfoNew
    /\ tpc = "returned" =>
          \A a, b \in NodesOf(graph) :
              /\ tresult[a] # USIZE_MAX
              /\ (tresult[a] = tresult[b]) <=> MutuallyReachable(graph, a, b)

\* C12: whenever max_flow() returns after a run(), the value is at most the
\* total capacity, in the edge list given at construction, of the edges
\* that leave the source set, and at most that of the edges that enter the
\* target set (the sets are the solver's own, given at construction).
C12_FlowBound ==
    (pc = "done" /\ result.call = "max_flow") =>
        /\ result.ok
        /\ result.value <= CutCapacity(edge_list, Range(sources))
        /\ result.value <= CutCapacity(edge_list, ListNodes(edge_list) \ Range(targets))

\* max_flow() has returned a positive flow that uses up all the capacity
\* leaving the sources while capacity entering the targets is left over
C12_Witness ==
    /\ pc = "done"
    /\ result.call = "max_flow"
    /\ result.value > 0
    /\ result.value = CutCapacity(edge_list, Range(sources))
    /\ result.value < CutCapacity(edge_list, ListNodes(edge_list) \ Range(targets))

\* C13: on a solver whose run() has completed, a call of max_flow() or
\* assignment() changes neither the residual capacities nor the stored flow
\* nor `finished`; max_flow() returns the stored flow and assignment(a) the
\* nodes reachable from a in the residual graph, whatever was called
\* before; so a call repeated with the same argument returns what it
\* returned before.
C13_IdempotentQuery ==
    [][(pc = "done" /\ result'.call \in {"max_flow", "assignment"}) =>
          /\ UNCHANGED <<residual_graph, max_flow, finished>>
          /\ (result.call = result'.call /\ result.arg = result'.arg)
                => result' = result
          /\ result'.call = "max_flow"
                => result' = Returned("max_flow", TRUE, max_flow, <<>>, <<>>)
          /\ result'.call = "assignment"
                => /\ result'.ok
                   /\ result'.bits
                        = [i \in NodesOf(residual_graph) |->
                              i \in PositiveReach(residual_graph, Range(result'.arg))]
      ]_vars

\* after a run() that pushed flow, assignment(targets) has returned a vector
\* that marks a node outside the targets
C13_Witness ==
    /\ pc = "done"
    /\ max_flow > 0
    /\ result.call = "assignment"
    /\ result.arg = targets
    /\ \E i \in DOMAIN result.bits : result.bits[i] /\ i \notin Range(targets)

\* C14: no run() panics: every edge u -> v of the residual graph has its
\* reverse edge v -> u in it, in every state, so both find_edge calls of an
\* unwinding step return an edge at every step of the parent chain.
C14_NoPanic ==
    /\ pc # "panic"
    /\ \A e \in 1 .. Len(residual_graph.edges) :
          find_edge(residual_graph, residual_graph.edges[e].target,
                    residual_graph.edges[e].source) # 0
    /\ (pc = "unwind" /\ parents[v] # v) =>
          /\ parents[v] \in NodesOf(residual_graph)
          /\ find_edge(residual_graph, parents[v], v) # 0
          /\ find_edge(residual_graph, v, parents[v]) # 0

\* the unwinding of a path of at least two edges has come to its second
\* edge, whose reverse edge exists only because from_edge_list added it
C14_Witness ==
    /\ pc = "unwind"
    /\ parents[v] # v
    /\ v \notin Range(targets)
    /\ \A i \in 1 .. Len(edge_list) :
          ~(edge_list[i].source = v /\ edge_list[i].target = parents[v])

\* C15: every edge u -> v of a path that dfs() unwinds has residual capacity
\* at least 1 when its unwinding step is taken, and goes from a node to a
\* node of a strictly higher level of the current phase.
C15_StrictlyHigherLevel ==
    (pc = "unwind" /\ parents[v] # v) =>
        /\ CapOf(residual_graph, parents[v], v) >= 1
        /\ level[parents[v]] < level[v]

\* C16: a bfs() that returns true is followed by a dfs() that returns
\* Some(f), and every Some(f) has f >= 1, so a phase that ends has pushed
\* flow; and run() terminates: with B the capacity that leaves the sources in
\* the input, a solver never makes more than B + (number of run() calls)
\* calls of bfs() nor more than 2 * B calls of dfs().
C16_PhaseProgress ==
    /\ [][/\ (pc = "bfs" /\ pc' = "dfs") =>
                dfs(residual_graph, level', sources, targets).found
          /\ (pc = "dfs" /\ pc' = "unwind") => pushed' >= 1
          /\ (pc = "dfs" /\ pc' = "bfs") => flow > 0
         ]_vars
    /\ [](LET B == CutCapacity(edge_list, Range(sources))
          IN  bfs_count <= B + runs /\ dfs_count <= 2 * B)

\* the first run() is in its second phase, and the first dfs() of that
\* phase has found a path
C16_Witness ==
    /\ runs = 1
    /\ pc = "unwind"
    /\ bfs_count = 2
    /\ dfs_count = 3
    /\ pushed >= 1

\* C17: a call of bfs() returns true exactly when a target is reachable
\* from a source along edges of residual capacity at least 1; it leaves in
\* `level` the hop distance from the nearest source of every node reached
\* on a path with no target inside (a target is labelled and not expanded),
\* usize::MAX for the other nodes and usize::MAX - 1 for the other targets;
\* and it leaves the queue empty.
C17_BfsLevels ==
    [][pc = "bfs" =>
          /\ pc' \in {"dfs", "done"}
          /\ (pc' = "dfs") <=>
                (Range(targets) \cap PositiveReach(residual_graph, Range(sources)) # {})
          /\ level' = HopLevels(residual_graph, Range(sources), Range(targets))
          /\ queue' = <<>>
      ]_vars

\* the first bfs() of a run has labelled a target and has left unlabelled a
\* node that can be reached from the sources only through a target
C17_Witness ==
    /\ pc = "dfs"
    /\ runs = 1
    /\ dfs_count = 0
    /\ \E t \in Range(targets) : level[t] < USIZE_MAX - 1
    /\ \E i \in NodesOf(residual_graph) :
          /\ level[i] = USIZE_MAX
          /\ i \in PositiveReach(residual_graph, Range(sources))

\* C18: when a dfs() reaches a target, the parent chain from that target is
\* a simple path of existing edges that ends at a source and has no source
\* and no target inside, and the amount to push is the least residual
\* capacity on it; each unwinding step takes that amount from the edge
\* parents[v] -> v, adds it to v -> parents[v], changes no other edge and
\* moves to parents[v]; the amount is added to the flow of the run() when
\* the chain ends, and max_flow is that flow when run() returns.
C18_OnePathPerDfs ==
    [][/\ (pc = "dfs" /\ pc' = "unwind") =>
             LET c == ParentChain(parents', v', number_of_nodes(residual_graph))
             IN  /\ Len(c) >= 2
                 /\ \A i \in 1 .. Len(c) : c[i] \in NodesOf(residual_graph)
                 /\ \A i, j \in 1 .. Len(c) : i # j => c[i] # c[j]
                 /\ c[1] \in Range(targets)
                 /\ c[Len(c)] \in Range(sources)
                 /\ \A i \in 2 .. Len(c) - 1 :
                       c[i] \notin Range(sources) \cup Range(targets)
                 /\ \A i \in 1 .. Len(c) - 1 :
                       find_edge(residual_graph, c[i + 1], c[i]) # 0
                 /\ pushed' = ChainBottleneck(residual_graph, c)
                 /\ residual_graph' = residual_graph
       /\ (pc = "unwind" /\ pc' = "unwind") =>
             /\ v' = parents[v]
             /\ pushed' = pushed
             /\ parents' = parents
             /\ Len(residual_graph'.edges) = Len(residual_graph.edges)
             /\ \A e \in 1 .. Len(residual_graph.edges) :
                   LET old == residual_graph.edges[e]
                       new == residual_graph'.edges[e]
                   IN  /\ SameBucket(old, new)
                       /\ new.capacity =
                             IF old.source = parents[v] /\ old.target = v
                             THEN old.capacity - pushed
                             ELSE IF old.source = v /\ old.target = parents[v]
                             THEN old.capacity + pushed
                             ELSE old.capacity
       /\ (pc = "unwind" /\ pc' = "dfs") =>
             /\ parents[v] = v
             /\ v \in Range(sources)
             /\ flow' = flow + pushed
             /\ residual_graph' = residual_graph
       /\ (pc' = "bfs" /\ pc \in {"new", "done"}) => flow' = 0
       /\ (pc' = "done" /\ pc = "bfs") => max_flow' = flow
      ]_vars

\* the first dfs() of a solver has returned after pushing a flow of at
\* least 2 along a path of at least two edges
C18_Witness ==
    /\ pc = "dfs"
    /\ runs = 1
    /\ dfs_count = 1
    /\ flow >= 2
    /\ \E t \in Range(targets) :
          /\ parents[t] \in NodesOf(residual_graph)
          /\ parents[t] \notin Range(sources)

\* C19: on a solver whose run() has completed, assignment(a) returns Ok of a
\* vector that marks exactly the nodes reachable from the nodes of a along
\* edges of residual capacity greater than 0 (the nodes of a themselves
\* included); for a = the solver's sources no target is marked.
C19_AssignmentIsReachability ==
    (pc = "done" /\ result.call = "assignment") =>
        /\ result.ok
        /\ DOMAIN result.bits = NodesOf(residual_graph)
        /\ \A i \in NodesOf(residual_graph) :
              result.bits[i] <=> i \in PositiveReach(residual_graph, Range(result.arg))
        /\ \A i \in Range(result.arg) : result.bits[i]
        /\ result.arg = sources => \A t \in Range(targets) : ~result.bits[t]

\* assignment(&[0]) after the run of the test max_flow_ff: the vector of the
\* test, bits![1, 1, 0, 1, 0, 0]
C19_Witness ==
    /\ FirstRunDone
    /\ edge_list = FfEdges
    /\ sources = <<0>>
    /\ targets = <<5>>
    /\ result.call = "assignment"
    /\ result.arg = sources
    /\ {i \in DOMAIN result.bits : result.bits[i]} = {0, 1, 3}

\* one step of the first run() of a Tarjan instance, seen from node a
C20_NodeStep(a) ==
    LET old == dfs_state[a]
        new == dfs_state'[a]
        discovered == old.index = USIZE_MAX /\ new.index # USIZE_MAX
    IN  /\ old.index # USIZE_MAX => new.index = old.index
        /\ discovered =>
              /\ new.index = index
              /\ index' = index + 1
              /\ new.neighbor = 0
              /\ new.on_stack
              /\ tarjan_stack' = Append(tarjan_stack, a)
        /\ (new.on_stack /\ ~old.on_stack) => discovered
        /\ (old.on_stack /\ ~new.on_stack) =>
              /\ tarjan_stack = Append(tarjan_stack', a)
              /\ assignment[a] = USIZE_MAX
              /\ assignment'[a] = num_scc'
        /\ (~discovered /\ old.index = USIZE_MAX) => new = old
        /\ old.index # USIZE_MAX =>
              /\ old.neighbor <= out_degree(graph, a)
              /\ new.neighbor \in {old.neighbor, old.neighbor + 1}
              /\ new.neighbor # old.neighbor =>
                    /\ a = last
                    /\ old.neighbor < out_degree(graph, a)

\* the first run() has returned: every node was discovered, popped, and all
\* its edges were examined
C20_AllDone ==
    FirstSccReturned =>
        /\ tarjan_stack = <<>>
        /\ {dfs_state[a].index : a \in NodesOf(graph)} = 0 .. number_of_nodes(graph) - 1
        /\ \A a \in NodesOf(graph) :
              /\ ~dfs_state[a].on_stack
              /\ dfs_state[a].neighbor = out_degree(graph, a)

\* C20: in the first run() of a Tarjan instance every node gets its index
\* once, is pushed once, at its discovery, and popped once, which is when
\* its on-stack flag is cleared and its component id is set; the edge cursor
\* of a node starts at 0 and moves by one per examined edge up to the
\* out-degree of the node; the stack grows and shrinks by these pushes and
\* pops alone; and the run() returns.
C20_OncePerNodeAndEdge ==
    /\ [][(truns = 1 /\ truns' = 1) =>
             /\ \A a \in NodesOf(graph) : C20_NodeStep(a)
             /\ tarjan_stack' # tarjan_stack =>
                   \E a \in NodesOf(graph) :
                       dfs_state'[a].on_stack # dfs_state[a].on_stack
         ]_vars
    /\ [](C20_AllDone)
    /\ (tpc = "for") ~> (tpc = "returned")

\* the first run() has returned on a graph of at least three nodes, one of
\* them with two edges or more, and found a component of two nodes or more
C20_Witness ==
    /\ FirstSccReturned
    /\ number_of_nodes(graph) >= 3
    /\ \E a \in NodesOf(graph) :
          out_degree(graph, a) >= 2 /\ dfs_state[a].neighbor = out_degree(graph, a)
    /\ \E a, b \in NodesOf(graph) : a # b /\ tresult[a] = tresult[b]

\* C21: in every state of a Tarjan instance, a node has its on-stack flag
\* set exactly when it is in tarjan_stack, where it is at most once; every
\* visited node has lowlink <= index; inside the loop of run() every caller
\* of the current node is on the stack, and so is the current node itself
\* until its component is popped; a node with no caller whose edges are
\* exhausted is the root of a component, so a DFS tree ends by closing one;
\* the stack is not empty where a pop comes next, no pop panics, and the
\* stack is empty between two DFS trees and when run() has returned.
C21_StackDiscipline ==
    /\ \A a \in DOMAIN dfs_state :
          /\ dfs_state[a].on_stack <=> a \in Range(tarjan_stack)
          /\ dfs_state[a].index # USIZE_MAX => dfs_state[a].lowlink <= dfs_state[a].index
    /\ \A i, j \in 1 .. Len(tarjan_stack) : i # j => tarjan_stack[i] # tarjan_stack[j]
    /\ tpc # "panic"
    /\ tpc \in {"loop", "pop", "return"} =>
          LET c == CallerChain(dfs_state, last, number_of_nodes(graph))
          IN  \A i \in 1 .. Len(c) : c[i] \in Range(tarjan_stack)
    /\ tpc \in {"loop", "pop"} => last \in Range(tarjan_stack)
    /\ (tpc = "loop" /\ ~HasEdge /\ dfs_state[last].caller = USIZE_MAX) =>
          dfs_state[last].lowlink = dfs_state[last].index
    /\ (tpc = "return" /\ dfs_state[last].caller = USIZE_MAX) => tarjan_stack = <<>>
    /\ tpc \in {"new", "for", "returned"} => tarjan_stack = <<>>

\* run() stands in its loop at a node with a caller that has a caller, on a
\* stack of three nodes or more, after a component was closed
C21_Witness ==
    /\ tpc = "loop"
    /\ Len(CallerChain(dfs_state, last, number_of_nodes(graph))) >= 2
    /\ Len(tarjan_stack) >= 3
    /\ \E a \in DOMAIN dfs_state :
          dfs_state[a].index # USIZE_MAX /\ ~dfs_state[a].on_stack

\* C22: outside the unwinding of a path, so after every augmentation, the
\* flow read off the residual graph (capacity at construction minus current
\* capacity, per edge) leaves every node that is neither a source nor a
\* target with net amount 0, and during and after the first run() it leaves
\* the source set with net amount equal to the flow the run() has
\* accumulated, which is max_flow once the run() has returned.
C22_FlowConservation ==
    pc \in {"new", "bfs", "dfs", "done"} =>
        /\ \A x \in NodesOf(residual_graph) \ (Range(sources) \cup Range(targets)) :
              NetFlowOut(Cap0, residual_graph, {x}, 1) = 0
        /\ runs <= 1 =>
              NetFlowOut(Cap0, residual_graph, Range(sources), 1) = flow
        /\ (runs = 1 /\ pc = "done") =>
              NetFlowOut(Cap0, residual_graph, Range(sources), 1) = max_flow

\* the first run() stands between two dfs() calls with a flow of 2 or more
\* accumulated, some of it passing through a node that is neither a source
\* nor a target
C22_Witness ==
    /\ pc = "dfs"
    /\ runs = 1
    /\ flow >= 2
    /\ \E e \in 1 .. Len(residual_graph.edges) :
          /\ residual_graph.edges[e].source \notin Range(sources) \cup Range(targets)
          /\ Cap0.edges[e].capacity - residual_graph.edges[e].capacity > 0

====
